---- MODULE Spec2Model ----
(***************************************************************************)
(* Session-cookie authentication of the japan-planner web application:     *)
(* the user and session tables, the clock, the three "current user"        *)
(* dependencies of auth.py and the page handlers of main.py that create,   *)
(* use and end sessions.  One action is one HTTP request served to         *)
(* completion, or one advance of the clock.  Time is counted in minutes.    *)
(***************************************************************************)
EXTENDS Integers, FiniteSets, Sequences, TLC

\* ---------------------------------------------------------------- bounds
MaxUsers == 3
MaxTicks == 2
MaxRows == 1

\* ------------------------------------------------------------- constants
SESSION_EXPIRATION_MINUTES == 60 * 24

\* request.cookies.get(SESSION_COOKIE_NAME) when the cookie is not sent or is
\* empty: the value the code's "if not session_id" / "if session_id" rejects
NoCookie == ""

\* the values secrets.token_urlsafe(32) can produce
Tokens == {"tokenA", "tokenB"}
Cookies == Tokens \cup {NoCookie}

Usernames == {"imma", "pedro.rodrigues", "guest"}
\* passwords tried at login, and passwords chosen at registration
Passwords == {"admin", "pedro"}
NewPasswords == {"pedro"}

\* amounts by which the clock moves between two requests
TickSteps == {1, SESSION_EXPIRATION_MINUTES - 1}
\* amounts by which the clock moves between two reads inside one request
ClockDrift == {0, 1}

\* The form of a request that carries no username and password fields.
NoForm == [username |-> "", password |-> ""]

\* Requests that may be inside POST /register at the same time, and the mark
\* of a request that is not between its lookup and its insert.
Requests == {"r1", "r2"}
Idle == [username |-> "", password |-> ""]

\* Form values of the page operations.
CityNames == {"Sapporo"}
AccommodationNames == {"Ryokan"}
CityIds == {1}
ExpenseDescriptions == {"ramen"}

VARIABLES
    users,      \* table user: set of rows [id, username, password_hash, is_admin]
    sessions,   \* table sessiondata: set of rows [session_id, user_id, created_at, expires_at]
    now,        \* datetime.utcnow(), in minutes
    ticks,      \* number of clock advances so far
    jar,        \* session_id cookie held by the client of the last request, after its response
    last,       \* the last request and the response delivered for it
    form,       \* the username and password fields of the last request
    pending,    \* POST /register requests between their lookup and their insert
    cities,     \* table city: set of rows [id, name, order]
    accommodations, \* table accommodation: set of rows [id, city_id, name]
    expenses    \* table expense: set of rows [id, user_id, description]

vars == <<users, sessions, now, ticks, jar, last, form, pending,
          cities, accommodations, expenses>>

\* ------------------------------------------------------------ primitives

\* result of .first() / session.get(): the empty set is None
first(rows) == IF rows = {} THEN {} ELSE {CHOOSE r \in rows : TRUE}

the(opt) == CHOOSE r \in opt : TRUE

get_password_hash(password) == <<"bcrypt", password>>

\* A variant that accepts every password.
verify_password_AcceptAll(plain_password, hashed_password) == TRUE

verify_password(plain_password, hashed_password) ==
    hashed_password = <<"bcrypt", plain_password>>

\* a Response object, reduced to what it does to the session_id cookie
NewResponse == [cookie_op |-> "keep", cookie_val |-> NoCookie]

set_cookie(response, value) == [cookie_op |-> "set", cookie_val |-> value]

delete_cookie(response) == [cookie_op |-> "delete", cookie_val |-> NoCookie]

\* what the client holds after sending cookie c and receiving response
Browser(c, response) ==
    CASE response.cookie_op = "set" -> response.cookie_val
      [] response.cookie_op = "delete" -> NoCookie
      [] OTHER -> c

\* primary key handed out for a new user row
NextUserId(rows) ==
    IF rows = {} THEN 1
    ELSE (CHOOSE i \in {r.id : r \in rows} : \A r \in rows : r.id <= i) + 1

\* the table without the UNIQUE constraint: every row is accepted
UniqueSessionId_NoConstraint(rows, session_id) == TRUE

\* session_id: str = Field(unique=True): the commit of a row is accepted
UniqueSessionId(rows, session_id) ==
    \A r \in rows : r.session_id # session_id

\* username: str = Field(unique=True, index=True): the commit of a user row is
\* accepted
UniqueUsername(rows, username) ==
    \A u \in rows : u.username # username

\* ------------------------------------------------------------ auth.py

\* t1 is the clock read of line 34, t2 the read of created_at's default_factory
\* A variant that keeps one session per user: the new row replaces the
\* user's older rows.
create_user_session_SingleSession(response, user_id, rows, session_id, t1, t2) ==
    LET expires_at == t1 + SESSION_EXPIRATION_MINUTES
        session_data == [session_id |-> session_id, user_id |-> user_id,
                         created_at |-> t2, expires_at |-> expires_at]
    IN  IF ~UniqueSessionId(rows, session_id)
        THEN [raised |-> TRUE, rows |-> rows, response |-> response]
        ELSE [raised |-> FALSE,
              rows |-> {r \in rows : r.user_id # user_id} \cup {session_data},
              response |-> set_cookie(response, session_id)]

create_user_session(response, user_id, rows, session_id, t1, t2) ==
    LET expires_at == t1 + SESSION_EXPIRATION_MINUTES
        session_data == [session_id |-> session_id, user_id |-> user_id,
                         created_at |-> t2, expires_at |-> expires_at]
    IN  IF ~UniqueSessionId(rows, session_id)
        THEN [raised |-> TRUE, rows |-> rows, response |-> response]
        ELSE [raised |-> FALSE, rows |-> rows \cup {session_data},
              response |-> set_cookie(response, session_id)]

\* a version that leaves the row in place
invalidate_user_session_KeepRow(response, c, rows) ==
    [rows |-> rows, response |-> delete_cookie(response)]

invalidate_user_session(response, c, rows) ==
    LET session_id == c
        db_session == first({r \in rows : r.session_id = session_id})
    IN  [rows |-> IF session_id # NoCookie /\ db_session # {}
                  THEN rows \ db_session
                  ELSE rows,
         response |-> delete_cookie(response)]

get_current_user_optional(c) ==
    LET session_id == c
        db_session_data == first({r \in sessions : r.session_id = session_id})
    IN  IF session_id = NoCookie
        THEN {}
        ELSE IF db_session_data = {} \/ the(db_session_data).expires_at < now
        THEN {}
        ELSE first({u \in users : u.id = the(db_session_data).user_id})

\* a version whose expiry test differs from the optional variant's
get_current_user_LeqExpiry(c) ==
    LET session_id == c
        db_session_data == first({r \in sessions : r.session_id = session_id})
        user == IF db_session_data = {} THEN {}
                ELSE first({u \in users : u.id = the(db_session_data).user_id})
    IN  IF session_id = NoCookie
        THEN [status |-> 401, detail |-> "Not authenticated", user |-> {}]
        ELSE IF db_session_data = {} \/ the(db_session_data).expires_at <= now
        THEN [status |-> 401, detail |-> "Session expired or invalid", user |-> {}]
        ELSE IF user = {}
        THEN [status |-> 401, detail |-> "User not found", user |-> {}]
        ELSE [status |-> 200, detail |-> "", user |-> user]

\* status 200 stands for "returned the user"; 401 is the raised HTTPException,
\* whose headers carry WWW-Authenticate only
get_current_user(c) ==
    LET session_id == c
        db_session_data == first({r \in sessions : r.session_id = session_id})
        user == IF db_session_data = {} THEN {}
                ELSE first({u \in users : u.id = the(db_session_data).user_id})
        \* lines 89-90: a Response local to the function, dropped by the raise
        response == delete_cookie(NewResponse)
    IN  IF session_id = NoCookie
        THEN [status |-> 401, detail |-> "Not authenticated", user |-> {}]
        ELSE IF db_session_data = {} \/ the(db_session_data).expires_at < now
        THEN [status |-> 401, detail |-> "Session expired or invalid", user |-> {}]
        ELSE IF user = {}
        THEN [status |-> 401, detail |-> "User not found", user |-> {}]
        ELSE [status |-> 200, detail |-> "", user |-> user]

get_current_active_user(c) == get_current_user(c)

\* A variant without the is_admin test of line 111.
get_current_admin_user_NoFlagTest(c) == get_current_active_user(c)

get_current_admin_user(c) ==
    LET current_user == get_current_active_user(c)
    IN  IF current_user.status # 200
        THEN current_user
        ELSE IF ~the(current_user.user).is_admin
        THEN [status |-> 403, detail |-> "Not an admin user", user |-> {}]
        ELSE current_user

\* ------------------------------------------------------------ delivery

\* the response the client receives, and what its cookie jar then holds
Deliver(op, c, status, user, response) ==
    /\ last' = [op |-> op, cookie |-> c, status |-> status, user |-> user]
    /\ jar' = Browser(c, response)

\* ------------------------------------------------------------ main.py

on_startup ==
    {[id |-> 1, username |-> "imma",
      password_hash |-> get_password_hash("admin"), is_admin |-> TRUE],
     [id |-> 2, username |-> "pedro.rodrigues",
      password_hash |-> get_password_hash("pedro"), is_admin |-> FALSE]}

\* lines 55-68: the cities seeded at startup.
cities_to_seed ==
    { [id |-> 1, name |-> "Tokyo", order |-> 1],
      [id |-> 2, name |-> "Kyoto", order |-> 2],
      [id |-> 3, name |-> "Osaka", order |-> 3],
      [id |-> 4, name |-> "Nara", order |-> 4],
      [id |-> 5, name |-> "Hiroshima", order |-> 5],
      [id |-> 6, name |-> "Hakone", order |-> 6] }

Init ==
    /\ users = on_startup
    /\ sessions = {}
    /\ now = 0
    /\ ticks = 0
    /\ jar = NoCookie
    /\ last = [op |-> "startup", cookie |-> NoCookie, status |-> 200, user |-> {}]
    /\ form = NoForm
    /\ pending = [r \in Requests |-> Idle]
    /\ cities = cities_to_seed
    /\ accommodations = {}
    /\ expenses = {}

\* POST /login
login(c, username, password) ==
    /\ form' = [username |-> username, password |-> password]
    /\ UNCHANGED <<pending, cities, accommodations, expenses>>
    /\ LET user == first({u \in users : u.username = username})
       IN  IF user = {} \/ ~verify_password(password, the(user).password_hash)
           THEN /\ Deliver("login", c, 401, {}, NewResponse)
                /\ UNCHANGED <<users, sessions, now, ticks>>
           ELSE \E token \in Tokens, d \in ClockDrift :
                LET redirect_response == NewResponse
                    r == create_user_session(redirect_response, the(user).id,
                                             sessions, token, now, now + d)
                IN  /\ ticks + d <= MaxTicks
                    /\ now' = now + d
                    /\ ticks' = ticks + d
                    /\ sessions' = r.rows
                    /\ UNCHANGED users
                    /\ IF r.raised
                       THEN Deliver("login", c, 500, {}, NewResponse)
                       ELSE Deliver("login", c, 302, user, r.response)

\* POST /logout
logout(c) ==
    /\ form' = NoForm
    /\ UNCHANGED <<pending, cities, accommodations, expenses>>
    /\ LET current_user == get_current_user(c)
           response == NewResponse
       IN  IF current_user.status # 200
           THEN /\ Deliver("logout", c, current_user.status, {}, NewResponse)
                /\ UNCHANGED <<users, sessions, now, ticks>>
           ELSE LET r == invalidate_user_session(response, c, sessions)
                    \* line 94: the handler answers with a Response of its own
                    returned == NewResponse
                IN  /\ sessions' = r.rows
                    /\ Deliver("logout", c, 302, current_user.user, returned)
                    /\ UNCHANGED <<users, now, ticks>>

\* POST /register
\* A variant without the lookup of line 102 and its 409: the row is always
\* inserted and a session is started for it.
register_user_SkipLookup(c, username, password) ==
    /\ form' = [username |-> username, password |-> password]
    /\ UNCHANGED <<pending, cities, accommodations, expenses>>
    /\ \E token \in Tokens :
       LET new_user == [id |-> NextUserId(users), username |-> username,
                        password_hash |-> get_password_hash(password),
                        is_admin |-> FALSE]
           r == create_user_session(NewResponse, new_user.id,
                                    sessions, token, now, now)
       IN  /\ new_user.id <= MaxUsers
           /\ users' = users \cup {new_user}
           /\ sessions' = r.rows
           /\ UNCHANGED <<now, ticks>>
           /\ IF r.raised
              THEN Deliver("register", c, 500, {}, NewResponse)
              ELSE Deliver("register", c, 302, {new_user}, NewResponse)

register_user(c, username, password) ==
    /\ form' = [username |-> username, password |-> password]
    /\ UNCHANGED <<pending, cities, accommodations, expenses>>
    /\ LET user == first({u \in users : u.username = username})
           response == NewResponse
       IN  IF user # {}
           THEN /\ Deliver("register", c, 409, {}, NewResponse)
                /\ UNCHANGED <<users, sessions, now, ticks>>
           ELSE \E token \in Tokens, d \in ClockDrift :
                LET new_user == [id |-> NextUserId(users), username |-> username,
                                 password_hash |-> get_password_hash(password),
                                 is_admin |-> FALSE]
                    r == create_user_session(response, new_user.id,
                                             sessions, token, now, now + d)
                    \* line 114: the handler answers with a Response of its own
                    returned == NewResponse
                IN  /\ new_user.id <= MaxUsers
                    /\ ticks + d <= MaxTicks
                    /\ now' = now + d
                    /\ ticks' = ticks + d
                    /\ users' = users \cup {new_user}
                    /\ sessions' = r.rows
                    /\ IF r.raised
                       THEN Deliver("register", c, 500, {}, NewResponse)
                       ELSE Deliver("register", c, 302, {new_user}, returned)

\* GET /me
\* A variant that removes the stored row of a refused cookie (lazy clean-up
\* of expired and orphaned rows during the lookup).
read_me_DeleteRefused(c) ==
    /\ form' = NoForm
    /\ UNCHANGED <<pending, cities, accommodations, expenses>>
    /\ LET current_user == get_current_user(c)
       IN  /\ Deliver("me", c, current_user.status, current_user.user, NewResponse)
           /\ sessions' = IF current_user.status = 401
                           THEN {r \in sessions : r.session_id # c}
                           ELSE sessions
           /\ UNCHANGED <<users, now, ticks>>

read_me(c) ==
    /\ form' = NoForm
    /\ UNCHANGED <<pending, cities, accommodations, expenses>>
    /\ LET current_user == get_current_user(c)
       IN  /\ Deliver("me", c, current_user.status, current_user.user, NewResponse)
           /\ UNCHANGED <<users, sessions, now, ticks>>

\* GET /admin
admin_page(c) ==
    /\ form' = NoForm
    /\ UNCHANGED <<pending, cities, accommodations, expenses>>
    /\ LET current_user == get_current_admin_user(c)
       IN  /\ Deliver("admin", c, current_user.status, current_user.user, NewResponse)
           /\ UNCHANGED <<users, sessions, now, ticks>>

\* GET /
dashboard(c) ==
    /\ form' = NoForm
    /\ UNCHANGED <<pending, cities, accommodations, expenses>>
    /\ LET current_user == get_current_user_optional(c)
       IN  /\ IF current_user = {}
              THEN Deliver("dashboard", c, 307, {}, NewResponse)
              ELSE Deliver("dashboard", c, 200, current_user, NewResponse)
           /\ UNCHANGED <<users, sessions, now, ticks>>

\* ------------------------------------- POST /register, step by step
\* Two server processes on one database run register_user side by side; each
\* request is then two steps on the store: the select of line 102 and the
\* commit of line 112 (crud.create_object), followed at once by
\* create_user_session. The requests carry no cookie.

\* lines 102-108: the lookup, and the 409 when a row is found
register_lookup(r, username, password) ==
    /\ pending[r] = Idle
    /\ UNCHANGED <<users, sessions, now, ticks, cities, accommodations, expenses>>
    /\ LET user == first({u \in users : u.username = username})
       IN  IF user # {}
           THEN /\ form' = [username |-> username, password |-> password]
                /\ Deliver("register", NoCookie, 409, {}, NewResponse)
                /\ UNCHANGED pending
           ELSE /\ pending' = [pending EXCEPT ![r] =
                                  [username |-> username, password |-> password]]
                /\ UNCHANGED <<jar, last, form>>

\* lines 110-114: the insert; the IntegrityError of a refused commit is not
\* caught and leaves the handler as a server error
register_insert(r) ==
    /\ pending[r] # Idle
    /\ pending' = [pending EXCEPT ![r] = Idle]
    /\ form' = pending[r]
    /\ UNCHANGED <<cities, accommodations, expenses>>
    /\ IF ~UniqueUsername(users, pending[r].username)
       THEN /\ Deliver("register", NoCookie, 500, {}, NewResponse)
            /\ UNCHANGED <<users, sessions, now, ticks>>
       ELSE \E token \in Tokens, d \in ClockDrift :
            LET response == NewResponse
                new_user == [id |-> NextUserId(users),
                             username |-> pending[r].username,
                             password_hash |-> get_password_hash(pending[r].password),
                             is_admin |-> FALSE]
                r2 == create_user_session(response, new_user.id,
                                          sessions, token, now, now + d)
                returned == NewResponse
            IN  /\ new_user.id <= MaxUsers
                /\ ticks + d <= MaxTicks
                /\ now' = now + d
                /\ ticks' = ticks + d
                /\ users' = users \cup {new_user}
                /\ sessions' = r2.rows
                /\ IF r2.raised
                   THEN Deliver("register", NoCookie, 500, {}, NewResponse)
                   ELSE Deliver("register", NoCookie, 302, {new_user}, returned)

\* ------------------------------------------- the page operations
\* id: Optional[int] = Field(default=None, primary_key=True) of City,
\* Accommodation and Expense
NextRowId(rows) == NextUserId(rows)

\* POST /cities
add_city(c, name) ==
    /\ form' = NoForm
    /\ UNCHANGED <<users, sessions, now, ticks, pending, accommodations, expenses>>
    /\ LET current_user == get_current_user(c)
           city == [id |-> NextRowId(cities), name |-> name, order |-> 99]
       IN  IF current_user.status # 200
           THEN /\ Deliver("add_city", c, current_user.status, {}, NewResponse)
                /\ UNCHANGED cities
           ELSE /\ Cardinality(cities) < Cardinality(cities_to_seed) + MaxRows
                /\ cities' = cities \cup {city}
                /\ Deliver("add_city", c, 302, current_user.user, NewResponse)

\* POST /accommodations
add_accommodation(c, name, city_id) ==
    /\ form' = NoForm
    /\ UNCHANGED <<users, sessions, now, ticks, pending, cities, expenses>>
    /\ LET current_user == get_current_user(c)
           acc == [id |-> NextRowId(accommodations), city_id |-> city_id,
                   name |-> name]
       IN  IF current_user.status # 200
           THEN /\ Deliver("add_accommodation", c, current_user.status, {},
                            NewResponse)
                /\ UNCHANGED accommodations
           ELSE /\ Cardinality(accommodations) < MaxRows
                /\ accommodations' = accommodations \cup {acc}
                /\ Deliver("add_accommodation", c, 302, current_user.user,
                            NewResponse)

\* POST /budget
add_expense(c, description) ==
    /\ form' = NoForm
    /\ UNCHANGED <<users, sessions, now, ticks, pending, cities, accommodations>>
    /\ LET current_user == get_current_user(c)
       IN  IF current_user.status # 200
           THEN /\ Deliver("add_expense", c, current_user.status, {}, NewResponse)
                /\ UNCHANGED expenses
           ELSE LET expense == [id |-> NextRowId(expenses),
                                user_id |-> the(current_user.user).id,
                                description |-> description]
                IN  /\ Cardinality(expenses) < MaxRows
                    /\ expenses' = expenses \cup {expense}
                    /\ Deliver("add_expense", c, 302, current_user.user,
                                NewResponse)

\* ------------------------------------------------------------ the clock

Tick(d) ==
    /\ ticks < MaxTicks
    /\ now' = now + d
    /\ ticks' = ticks + 1
    /\ UNCHANGED <<users, sessions, jar, last, form>>
    /\ UNCHANGED <<pending, cities, accommodations, expenses>>

\* ------------------------------------------------------------ behaviours

\* login and register_user never read the request's cookies: their client is
\* taken to be one that holds no session cookie
Next ==
    \/ \E username \in Usernames, password \in Passwords :
            login(NoCookie, username, password)
    \/ \E c \in Cookies : logout(c)
    \/ \E username \in Usernames, password \in NewPasswords :
            register_user(NoCookie, username, password)
    \/ \E c \in Cookies : read_me(c)
    \/ \E c \in Cookies : admin_page(c)
    \/ \E c \in Cookies : dashboard(c)
    \/ \E d \in TickSteps : Tick(d)

Spec == Init /\ [][Next]_vars

\* The program with POST /register taken step by step by concurrent requests.
NextRegister ==
    \/ \E r \in Requests, username \in Usernames, password \in NewPasswords :
           register_lookup(r, username, password)
    \/ \E r \in Requests : register_insert(r)
    \/ \E username \in Usernames, password \in Passwords :
           login(NoCookie, username, password)
    \/ \E c \in Cookies : logout(c)

SpecRegister == Init /\ [][NextRegister]_vars

\* The program with its data-mutating page operations.
NextPages ==
    \/ \E username \in Usernames, password \in Passwords :
           login(NoCookie, username, password)
    \/ \E c \in Cookies : logout(c)
    \/ \E c \in Cookies, name \in CityNames : add_city(c, name)
    \/ \E c \in Cookies, name \in AccommodationNames, city_id \in CityIds :
           add_accommodation(c, name, city_id)
    \/ \E c \in Cookies, description \in ExpenseDescriptions :
           add_expense(c, description)
    \/ \E d \in TickSteps : Tick(d)

SpecPages == Init /\ [][NextPages]_vars

\* ------------------------------------------------- lookups on any store

\* a user row left by an earlier registration
guest_row ==
    [id |-> 3, username |-> "guest",
     password_hash |-> get_password_hash("pedro"), is_admin |-> FALSE]

\* session rows an earlier run of create_user_session at time 0 can have left
StoredSessionRows ==
    {[session_id |-> t, user_id |-> u, created_at |-> d,
      expires_at |-> SESSION_EXPIRATION_MINUTES] :
        t \in Tokens, u \in 1..MaxUsers, d \in ClockDrift}

LookupTimes ==
    {1, SESSION_EXPIRATION_MINUTES - 1, SESSION_EXPIRATION_MINUTES,
     SESSION_EXPIRATION_MINUTES + 1}

\* the tables as the database file holds them when a request arrives: the
\* seeded users, possibly a registered one, and any session rows, also rows
\* whose user row has been removed from the file
InitLookup ==
    /\ users \in {on_startup, on_startup \cup {guest_row}}
    /\ sessions \in {S \in SUBSET StoredSessionRows :
                        \A r1, r2 \in S : r1.session_id = r2.session_id => r1 = r2}
    /\ now \in LookupTimes
    /\ ticks = 0
    /\ jar = NoCookie
    /\ last = [op |-> "startup", cookie |-> NoCookie, status |-> 200, user |-> {}]
    /\ form = NoForm
    /\ pending = [r \in Requests |-> Idle]
    /\ cities = cities_to_seed
    /\ accommodations = {}
    /\ expenses = {}

NextLookup ==
    \/ \E c \in Cookies : read_me(c)
    \/ \E c \in Cookies : admin_page(c)
    \/ \E c \in Cookies : dashboard(c)

SpecLookup == InitLookup /\ [][NextLookup]_vars

\* ---------------------------------------------------- terms of the claims

SessionOf(c) == first({r \in sessions : r.session_id = c})

UserOf(row) == first({u \in users : u.id = row.user_id})

\* the session states of the design: ACTIVE and EXPIRED
ACTIVE(row) == row.created_at <= now /\ now < row.expires_at

EXPIRED(row) == now >= row.expires_at

\* the request of cookie c is authenticated by the design's rules
Authenticated(c) ==
    /\ c # NoCookie
    /\ SessionOf(c) # {}
    /\ ~EXPIRED(the(SessionOf(c)))
    /\ UserOf(the(SessionOf(c))) # {}

\* ------------------------------------------------------------------ C1
\* C1: resolve_optional returns none for no cookie, an unknown token, an
\* expired session or a session whose user row is missing, and otherwise
\* exactly the user whose id is the session's user_id.
C1_ResolveOptionalContract ==
    \A c \in Cookies :
        IF Authenticated(c)
        THEN get_current_user_optional(c) = UserOf(the(SessionOf(c)))
        ELSE get_current_user_optional(c) = {}

\* ------------------------------------------------------------------ C2
\* C2: on the same store, clock and cookie, require returns user u exactly
\* when resolve_optional returns u, and fails with 401 exactly when
\* resolve_optional returns none.
C2_RequireAgreesWithOptional ==
    \A c \in Cookies :
        LET o == get_current_user_optional(c)
            r == get_current_user(c)
        IN  /\ r.status \in {200, 401}
            /\ (r.status = 200) <=> (o # {})
            /\ r.user = o

\* GET /me has just refused a cookie whose session row is stored, while
\* another cookie is accepted by both lookups
C2_Witness ==
    /\ last.op = "me"
    /\ last.status = 401
    /\ SessionOf(last.cookie) # {}
    /\ \E c \in Cookies :
        /\ get_current_user_optional(c) # {}
        /\ get_current_user(c).status = 200

\* ------------------------------------------------------------------ C3
\* C3: a stored session is accepted by resolve_optional and by require iff
\* created_at <= now < expires_at; at now = expires_at it is refused.
C3_ActiveIffBeforeExpiry ==
    \A s \in sessions :
        UserOf(s) # {} =>
            /\ (get_current_user_optional(s.session_id) # {}) <=> ACTIVE(s)
            /\ (get_current_user(s.session_id).status = 200) <=> ACTIVE(s)

\* ------------------------------------------------------------------ C4
\* C4: a request served by require (GET /me) on a cookie whose session row
\* is stored but expired is answered with 401 and the client no longer holds
\* the cookie after the response.
C4_ExpiredRequireClearsCookie ==
    [][(/\ last'.op = "me"
        /\ now' = now
        /\ SessionOf(last'.cookie) # {}
        /\ the(SessionOf(last'.cookie)).expires_at < now)
       => (last'.status = 401 /\ jar' = NoCookie)]_vars

\* ------------------------------------------------------------------ C5
\* C5: require_admin returns the user exactly for an ACTIVE session of an
\* admin, fails with 403 for an ACTIVE session of a non-admin, and fails
\* with 401 for an absent, unknown, expired or orphaned session.
C5_RequireAdminContract ==
    \A c \in Cookies :
        LET r == get_current_admin_user(c)
        IN  IF ~Authenticated(c)
            THEN r.status = 401
            ELSE IF the(UserOf(the(SessionOf(c)))).is_admin
            THEN r.status = 200 /\ r.user = UserOf(the(SessionOf(c)))
            ELSE r.status = 403

\* ------------------------------------------------------------------ C6
\* C6: POST /logout never fails, leaves no session row for the request's
\* token and leaves the client without the cookie, with or without an
\* active session.
C6_EndSessionIdempotent ==
    last.op = "logout" =>
        /\ last.status < 400
        /\ SessionOf(last.cookie) = {}
        /\ jar = NoCookie

\* ------------------------------------------------------------------ C7
\* C7: once a logout with cookie B has been performed, resolve_optional
\* with B returns none and require with B fails with 401, also while the
\* same user holds another active session.
C7_LogoutThenLookupFails ==
    (last.op = "logout" /\ last.status = 302) =>
        /\ get_current_user_optional(last.cookie) = {}
        /\ get_current_user(last.cookie).status = 401

\* a logout was performed while the same user keeps an active session
C7_Witness ==
    /\ last.op = "logout"
    /\ last.status = 302
    /\ \E s \in sessions :
        /\ s.user_id = the(last.user).id
        /\ s.session_id # last.cookie
        /\ get_current_user(s.session_id).status = 200

\* ------------------------------------------------------------------ C8
\* C8: every request of POST /login or POST /register that creates a
\* session leaves the client holding the new row's token, so that require
\* with the client's cookie returns the user who logged in or registered.
C8_StartSessionSetsCookie ==
    [][(/\ last'.op \in {"login", "register"}
        /\ last'.status = 302
        /\ sessions' # sessions)
       => (/\ \E s \in sessions' \ sessions : s.session_id = jar'
           /\ (get_current_user(jar).status = 200)'
           /\ (get_current_user(jar).user = last.user)')]_vars

\* ------------------------------------------------------------------ C9
\* C9: every stored session row has expires_at = created_at + 24 hours.
C9_ExpiryIsCreatedPlusTTL ==
    \A s \in sessions :
        s.expires_at = s.created_at + SESSION_EXPIRATION_MINUTES

\* ------------------------------------------------------------------ C10
\* C10: no two stored session rows share a session_id: a session is only
\* created under a token no stored row carries.
C10_TokensUnique ==
    \A s1, s2 \in sessions : s1.session_id = s2.session_id => s1 = s2

\* a login created a session while another session was stored
C10_Witness ==
    /\ last.op = "login"
    /\ last.status = 302
    /\ Cardinality(sessions) >= 2

\* C11: a step that creates a session (a login or a registration, also a
\* further login of a user who already holds sessions) leaves every stored
\* session row in the store with the same token, user and expires_at; a row
\* leaves the store only in a logout step made with its own token.
C11_NewSessionKeepsOldSessions ==
    [][ /\ (sessions' \ sessions # {}) => sessions \subseteq sessions'
        /\ \A s \in sessions \ sessions' :
              last'.op = "logout" /\ last'.cookie = s.session_id ]_vars

\* a login of a user who already held a session succeeded and both rows are
\* stored
C11_Witness ==
    /\ last.op = "login"
    /\ last.status = 302
    /\ \E s1, s2 \in sessions :
          /\ s1 # s2
          /\ s1.user_id = s2.user_id
          /\ last.user # {}
          /\ s1.user_id = the(last.user).id

\* C12: expiry is absolute: no step changes the expires_at of a stored session
\* row, and at every time 24 hours or more after a row's creation both
\* lookups with its token fail, whatever requests were made with it before.
C12_ExpiryIsAbsolute ==
    [][ /\ \A s \in sessions, s2 \in sessions' :
              s2.session_id = s.session_id => s2.expires_at = s.expires_at
        /\ \A s \in sessions' :
              now' >= s.created_at + SESSION_EXPIRATION_MINUTES
                  => /\ (get_current_user_optional(s.session_id) = {})'
                     /\ (get_current_user(s.session_id).status = 401)' ]_vars

\* C13: the lookups are read-only on the store: a step of GET /me (require),
\* GET /admin (require_admin) or GET / (resolve_optional) leaves the session
\* rows and the user rows as they were, whatever the outcome (user returned,
\* none, 401, 403); an expired row found by the lookup stays stored unchanged.
C13_LookupsAreReadOnly ==
    [][ last'.op \in {"me", "admin", "dashboard"}
            => sessions' = sessions /\ users' = users ]_vars

\* GET /me was refused for the cookie of an expired row, and the row is stored
C13_Witness ==
    /\ last.op = "me"
    /\ last.status = 401
    /\ \E s \in sessions : s.session_id = last.cookie /\ s.expires_at < now

\* C14: sessions are created only on successful authentication: a POST /login
\* whose username is unknown or whose password is not the one the stored hash
\* was made from is answered 401, adds no session row and sets no cookie; and
\* a session row for user u is added only by a login with u's username and
\* password or by the registration that created u.
C14_SessionsOnlyOnAuthentication ==
    [][ /\ ( /\ last'.op = "login"
             /\ ticks' = ticks
             /\ \A u \in users : u.username = form'.username
                    => u.password_hash # get_password_hash(form'.password) )
            => /\ last'.status = 401
               /\ sessions' = sessions
               /\ jar' = last'.cookie
        /\ \A s \in sessions' \ sessions :
              \E u \in users' :
                  /\ u.id = s.user_id
                  /\ u.username = form'.username
                  /\ last'.status = 302
                  /\ last'.user = {u}
                  /\ \/ /\ last'.op = "login"
                        /\ u \in users
                        /\ u.password_hash = get_password_hash(form'.password)
                     \/ /\ last'.op = "register"
                        /\ u \notin users ]_vars

\* a login with a stored username and a wrong password was refused
C14_Witness ==
    /\ last.op = "login"
    /\ last.status = 401
    /\ \E u \in users :
          /\ u.username = form.username
          /\ u.password_hash # get_password_hash(form.password)

\* C15: a POST /register whose username is already in the user table is
\* answered 409 and leaves the store as it was: no user row is added or
\* modified, no session row is created and no cookie is set.
C15_RegisterTakenUsername ==
    [][ ( /\ last'.op = "register"
          /\ ticks' = ticks
          /\ \E u \in users : u.username = form'.username )
            => /\ last'.status = 409
               /\ users' = users
               /\ sessions' = sessions
               /\ jar' = last'.cookie ]_vars

\* a registration with the username of a stored user was refused
C15_Witness ==
    /\ last.op = "register"
    /\ last.status = 409
    /\ \E u \in users : u.username = form.username

\* C16: when POST /register requests for one username interleave (lookup and
\* insert are separate steps), the user table never holds two rows with one
\* username, the insert of a request whose username is still free creates the
\* user, and the insert of every request that finds the username taken by
\* then is answered 409, not with a storage error.
C16_ConcurrentRegisterConflict ==
    [][ /\ \A u1, u2 \in users' : u1.username = u2.username => u1 = u2
        /\ \A r \in Requests :
              (pending[r] # Idle /\ pending'[r] = Idle)
                  => IF \E u \in users : u.username = pending[r].username
                     THEN last'.status = 409 /\ users' = users
                     ELSE \E u \in users' \ users :
                              u.username = pending[r].username ]_vars

\* C17: POST /cities, POST /accommodations and POST /budget change the store
\* only for a request whose cookie names an ACTIVE session with an existing
\* user; every other request (no cookie, unknown token, expired session) is
\* answered 401 and leaves the city, accommodation and expense tables as they
\* were; a created expense has the user_id of the authenticated user.
C17_PageMutationsNeedActiveSession ==
    [][ ( /\ last'.op \in {"add_city", "add_accommodation", "add_expense"}
          /\ now' = now )
            => IF Authenticated(last'.cookie)
               THEN \A e \in expenses' \ expenses :
                        e.user_id = the(SessionOf(last'.cookie)).user_id
               ELSE /\ last'.status = 401
                    /\ cities' = cities
                    /\ accommodations' = accommodations
                    /\ expenses' = expenses ]_vars

\* C18: admin privilege is not acquired through the application: every user
\* that was not seeded at startup has is_admin false, the seeded rows stay as
\* they were seeded, and require_admin succeeds only for a session of a user
\* seeded as admin.
C18_AdminOnlyBySeed ==
    /\ \A u \in users \ on_startup : ~u.is_admin
    /\ on_startup \subseteq users
    /\ \A c \in Cookies :
          LET r == get_current_admin_user(c)
          IN  r.status = 200 => r.user \subseteq {u \in on_startup : u.is_admin}

\* GET /admin was refused with 403 for the stored session of a registered user
C18_Witness ==
    /\ last.op = "admin"
    /\ last.status = 403
    /\ \E s \in sessions, u \in users \ on_startup :
          /\ s.session_id = last.cookie
          /\ s.user_id = u.id
          /\ s.expires_at > now

====
